---- MODULE Spec2Model ----
(***************************************************************************)
(* Model of scripts/parse-history.js: the bounded-concurrency fetch        *)
(* pipeline (getTransactionDetails / getAllTransactions), the paginated    *)
(* signature source (getSignatures), the record classifier (isPumpfunTx)   *)
(* and the fixed-offset payload decoder (parsePumpfunTx).  The file holds  *)
(* two variants of the program: the "full" one (lines 1-246) and the       *)
(* "minimal" one (lines 248-443).                                          *)
(*                                                                         *)
(* JavaScript runs every callback to completion, and the microtask queue   *)
(* is drained before the next I/O completion is delivered.  One action of  *)
(* the model is therefore one I/O completion together with the promise     *)
(* reactions it triggers, in the order the microtask queue runs them.      *)
(***************************************************************************)
EXTENDS Integers, Sequences, FiniteSets, TLC

\* ------------------------------------------------------------------ bounds
\* Longest identifier list handed to the pipeline.
MaxSigs == 3
\* Largest concurrency limit tried below the program's own batchSize.
MaxLimit == 2

\* ------------------------------------------------------- program constants
\* const batchSize = 20
BATCH_SIZE == 20
\* if (encoded.length != 137) continue;
FULL_LENGTH == 137
\* connection.getSignaturesForAddress(pubKey, { before, limit: 1000 })
PAGE_LIMIT == 1000

PUMPFUN_PROGRAM_ID == "6EF8rrecthR5Dkzon8Nwu78hRvfCKubJ14M5uBEwF6P"
OTHER_PROGRAM_ID == "ComputeBudget111111111111111111111111111111"

Variants == {"full", "minimal"}

\* ------------------------------------------------------------------- bytes
Min(a, b) == IF a < b THEN a ELSE b

\* Uint8Array.prototype.slice(from, to) for 0 <= from <= to (0-based, to exclusive)
slice(bytes, from, to) == SubSeq(bytes, from + 1, Min(to, Len(bytes)))

\* Two's complement negation of a little-endian byte string.
RECURSIVE NegateLE(_, _)
NegateLE(bytes, carry) ==
  IF bytes = <<>> THEN <<>>
  ELSE LET v == (255 - Head(bytes)) + carry
       IN  <<v % 256>> \o NegateLE(Tail(bytes), v \div 256)

\* The i-th 16-bit word (i = 1..4) of 8 little-endian bytes.
Word(bytes, i) == bytes[2 * i - 1] + 256 * bytes[2 * i]

\* 65536^0 .. 65536^3 in base-1000 limbs, least significant limb first.
Pow65536 ==
  << <<1, 0, 0, 0, 0, 0, 0>>,
     <<536, 65, 0, 0, 0, 0, 0>>,
     <<296, 967, 294, 4, 0, 0, 0>>,
     <<656, 710, 976, 474, 281, 0, 0>> >>

\* The unsigned value of 8 little-endian bytes in base-1000 limbs, least
\* significant first: limb k before carries is the sum of word * power limb.
RECURSIVE Limbs(_, _, _)
Limbs(bytes, k, carry) ==
  IF k > 7 THEN <<>>
  ELSE LET v == Word(bytes, 1) * Pow65536[1][k] + Word(bytes, 2) * Pow65536[2][k]
                + Word(bytes, 3) * Pow65536[3][k] + Word(bytes, 4) * Pow65536[4][k] + carry
       IN  <<v % 1000>> \o Limbs(bytes, k + 1, v \div 1000)

\* Decimal digits, most significant first and without leading zeros, of the
\* unsigned value of 8 little-endian bytes.
Digits(bytes) ==
  LET limbs == Limbs(bytes, 1, 0)
      all   == [j \in 1..21 |->
                 LET limb == limbs[7 - ((j - 1) \div 3)]
                     pos  == (j - 1) % 3
                 IN  (limb \div (IF pos = 0 THEN 100 ELSE IF pos = 1 THEN 10 ELSE 1)) % 10]
      nz    == {j \in 1..21 : all[j] # 0}
  IN  IF nz = {} THEN <<0>>
      ELSE SubSeq(all, CHOOSE j \in nz : \A k \in nz : j <= k, 21)

\* Buffer.prototype.readBigInt64LE(0) followed by BigInt.prototype.toString():
\* the signed 64-bit little-endian value as a sign and decimal digits.  The
\* read throws a RangeError when the buffer holds fewer than 8 bytes.
ReadThrows(buf) == Len(buf) < 8

readBigInt64LE(buf) ==
  LET b8  == SubSeq(buf, 1, 8)
      neg == b8[8] >= 128
  IN  [neg |-> neg, digits |-> Digits(IF neg THEN NegateLE(b8, 1) ELSE b8)]

\* ----------------------------------------------------------------- strings
\* Strings that are searched are sequences of one-character strings.
\* String.prototype.includes
includes(str, sub) ==
  \E i \in 1..(Len(str) - Len(sub) + 1) : SubSeq(str, i, i + Len(sub) - 1) = sub

BUY_MARKER ==
  <<"P", "r", "o", "g", "r", "a", "m", " ", "l", "o", "g", ":", " ", "I", "n", "s", "t", "r", "u", "c", "t", "i", "o", "n", ":", " ", "B", "u", "y">>
SELL_MARKER ==
  <<"P", "r", "o", "g", "r", "a", "m", " ", "l", "o", "g", ":", " ", "I", "n", "s", "t", "r", "u", "c", "t", "i", "o", "n", ":", " ", "S", "e", "l", "l">>
LogInvoke ==
  <<"P", "r", "o", "g", "r", "a", "m", " ", "6", "E", "F", "8", " ", "i", "n", "v", "o", "k", "e", " ", "[", "1", "]">>
LogTransfer ==
  <<"P", "r", "o", "g", "r", "a", "m", " ", "l", "o", "g", ":", " ", "I", "n", "s", "t", "r", "u", "c", "t", "i", "o", "n", ":", " ", "T", "r", "a", "n", "s", "f", "e", "r">>

\* ------------------------------------------------------------ the records
\* A parsed transaction as connection.getParsedTransaction resolves it:
\*   [transaction |-> [message |-> [instructions |-> <<[programId]>>], signatures],
\*    meta |-> [logMessages, innerInstructions |-> <<[instructions |-> <<[programId, data]>>]>>, err],
\*    slot, blockTime]
\* An instruction's data is a base58 string: data.valid says whether bs58.decode
\* accepts it, data.bytes are the bytes it decodes to.
Tx(sig, outer, logs, inner, err) ==
  [transaction |-> [message |-> [instructions |-> [i \in 1..Len(outer) |-> [programId |-> outer[i]]]],
                    signatures |-> <<sig>>],
   meta |-> [logMessages |-> logs, innerInstructions |-> inner, err |-> err],
   slot |-> 100 + sig, blockTime |-> 1000 + sig]

\* -------------------------------------------------------------- classifier
\* isPumpfunTx with the Sell marker tested before the Buy marker.
isPumpfunTxSellFirst(tx) ==
  IF \E i \in 1..Len(tx.transaction.message.instructions) :
       tx.transaction.message.instructions[i].programId = PUMPFUN_PROGRAM_ID
  THEN IF \E j \in 1..Len(tx.meta.logMessages) : includes(tx.meta.logMessages[j], SELL_MARKER)
       THEN 2
       ELSE IF \E j \in 1..Len(tx.meta.logMessages) : includes(tx.meta.logMessages[j], BUY_MARKER)
            THEN 1
            ELSE 0
  ELSE 0

\* isPumpfunTx: 0 for not pumpfun, 1 for buy, 2 for sell.  (The full variant
\* also tests tx.transaction, which a parsed transaction always carries.)
isPumpfunTx(tx) ==
  IF \E i \in 1..Len(tx.transaction.message.instructions) :
       tx.transaction.message.instructions[i].programId = PUMPFUN_PROGRAM_ID
  THEN IF \E j \in 1..Len(tx.meta.logMessages) : includes(tx.meta.logMessages[j], BUY_MARKER)
       THEN 1
       ELSE IF \E j \in 1..Len(tx.meta.logMessages) : includes(tx.meta.logMessages[j], SELL_MARKER)
            THEN 2
            ELSE 0
  ELSE 0

\* ----------------------------------------------------------------- decoder
\* The two nested for-loops of parsePumpfunTx visit the inner instructions in
\* group order, then in instruction order within the group.
RECURSIVE Flatten(_)
Flatten(groups) ==
  IF groups = <<>> THEN <<>> ELSE Head(groups).instructions \o Flatten(Tail(groups))

\* The flag test as a truthiness test: any non-zero byte counts as a buy.
IsBuyNonZero(encoded) == Len(encoded) > 64 /\ encoded[65] # 0

\* encoded[64] == 1: an index past the end reads undefined, which is not 1.
IsBuyAt64(encoded) == Len(encoded) > 64 /\ encoded[65] = 1

\* The minimal variant's loop body, from the first inner instruction on
\* (synchronous, no length test).  kind "undefined": the loops end without a
\* return; "throw": bs58.decode or readBigInt64LE throws; "value": the object.
RECURSIVE ScanMinimal(_)
ScanMinimal(insts) ==
  IF insts = <<>> THEN [kind |-> "undefined"]
  ELSE IF Head(insts).programId = PUMPFUN_PROGRAM_ID
       THEN IF ~Head(insts).data.valid THEN [kind |-> "throw"]
            ELSE LET encoded == Head(insts).data.bytes
                 IN  IF ReadThrows(slice(encoded, 48, 56)) \/ ReadThrows(slice(encoded, 56, 64))
                     THEN [kind |-> "throw"]
                     ELSE [kind |-> "value",
                           value |-> [solAmount   |-> readBigInt64LE(slice(encoded, 48, 56)),
                                      tokenAmount |-> readBigInt64LE(slice(encoded, 56, 64)),
                                      isBuy       |-> IsBuyAt64(encoded)]]
       ELSE ScanMinimal(Tail(insts))

parsePumpfunTxMinimal(tx) == ScanMinimal(Flatten(tx.meta.innerInstructions))

\* The full variant up to its await: a target-program instruction whose blob
\* is not 137 bytes long is skipped (continue).  kind "await": the fields read
\* so far, with nameOfToken(mint) still to come; "throw": the async function's
\* promise is rejected; "undefined": it is fulfilled with undefined.
RECURSIVE ScanFull(_, _)
ScanFull(insts, tx) ==
  IF insts = <<>> THEN [kind |-> "undefined"]
  ELSE IF Head(insts).programId = PUMPFUN_PROGRAM_ID
       THEN IF ~Head(insts).data.valid THEN [kind |-> "throw"]
            ELSE LET encoded == Head(insts).data.bytes
                 IN  IF Len(encoded) # FULL_LENGTH THEN ScanFull(Tail(insts), tx)
                     ELSE [kind |-> "await",
                           value |-> [mint        |-> slice(encoded, 16, 48),
                                      solAmount   |-> readBigInt64LE(slice(encoded, 48, 56)),
                                      tokenAmount |-> readBigInt64LE(slice(encoded, 56, 64)),
                                      isBuy       |-> IsBuyAt64(encoded),
                                      timestamp   |-> readBigInt64LE(slice(encoded, 97, 105)),
                                      slot        |-> tx.slot,
                                      signature   |-> tx.transaction.signatures[1],
                                      success     |-> tx.meta.err = "null"]]
       ELSE ScanFull(Tail(insts), tx)

parsePumpfunTxFull(tx) == ScanFull(Flatten(tx.meta.innerInstructions), tx)

\* ----------------------------------------------------------------- display
\* a > b for decimal digit strings without leading zeros.
RECURSIVE DigitsGreater(_, _)
DigitsGreater(a, b) ==
  IF Len(a) # Len(b) THEN Len(a) > Len(b)
  ELSE IF a = <<>> THEN FALSE
       ELSE IF Head(a) # Head(b) THEN Head(a) > Head(b)
            ELSE DigitsGreater(Tail(a), Tail(b))

\* 8.64e12 seconds: the largest |timestamp| whose Date has a valid time value.
MAX_DATE_SECONDS == <<8, 6, 4, 0, 0, 0, 0, 0, 0, 0, 0, 0, 0>>

\* showPumpfunTx(parsedTx) throws a TypeError when parsedTx is undefined
\* (parsedTx.timestamp) and a RangeError when toISOString() meets an invalid Date.
showPumpfunTxThrows(parsed) ==
  \/ parsed.kind = "undefined"
  \/ parsed.kind = "value" /\ DigitsGreater(parsed.value.timestamp.digits, MAX_DATE_SECONDS)


\* ------------------------------------------------------------------ inputs
\* A 137-byte-layout blob cut to len bytes: mint at 16, solAmount at 48,
\* tokenAmount at 56, isBuy at 64, timestamp at 97 (0-based offsets).
Blob(len, mintByte, sol, tok, flag, ts) ==
  [i \in 1..len |->
     IF i \in 17..48 THEN mintByte
     ELSE IF i \in 49..56 THEN sol[i - 48]
     ELSE IF i \in 57..64 THEN tok[i - 56]
     ELSE IF i = 65 THEN flag
     ELSE IF i \in 98..105 THEN ts[i - 97]
     ELSE 0]

\* The annotated payload of the source: 491103214, 12256633644127, 1738840559.
FixtureSol == <<238, 163, 69, 29, 0, 0, 0, 0>>
FixtureTok == <<95, 100, 75, 184, 37, 11, 0, 0>>
FixtureTs  == <<239, 153, 164, 103, 0, 0, 0, 0>>
\* A timestamp (2^62 seconds) no Date can hold.
HugeTs     == <<0, 0, 0, 0, 0, 0, 0, 64>>

Data(bytes) == [valid |-> TRUE, bytes |-> bytes]
BadData     == [valid |-> FALSE, bytes |-> <<>>]
Inst(prog, data) == [programId |-> prog, data |-> data]
Group(insts)     == [instructions |-> insts]

\* Inner-instruction lists of the sample records the pipeline is run on: no
\* target-program instruction; a buy and a sell of two mints; a timestamp no
\* Date can hold; a blob cut short.
InnerSamples ==
  { <<Group(<<Inst(OTHER_PROGRAM_ID, Data(<<1, 2, 3>>))>>)>>,
    <<Group(<<Inst(OTHER_PROGRAM_ID, Data(<<1, 2, 3>>)),
              Inst(PUMPFUN_PROGRAM_ID, Data(Blob(137, 7, FixtureSol, FixtureTok, 1, FixtureTs)))>>)>>,
    <<Group(<<Inst(PUMPFUN_PROGRAM_ID, Data(Blob(137, 9, FixtureTok, FixtureSol, 0, FixtureTs)))>>)>>,
    <<Group(<<Inst(PUMPFUN_PROGRAM_ID, Data(Blob(137, 7, FixtureSol, FixtureTok, 1, HugeTs)))>>)>>,
    <<Group(<<Inst(PUMPFUN_PROGRAM_ID, Data(Blob(63, 7, FixtureSol, FixtureTok, 1, FixtureTs)))>>)>> }

\* What connection.getParsedTransaction(sig.signature) can settle with: a
\* rejection, null (the ledger does not know the signature), or a record.
FetchResponses(sig) ==
  {[kind |-> "error"], [kind |-> "null"],
   [kind |-> "tx", tx |-> Tx(sig.signature, <<OTHER_PROGRAM_ID>>, <<BUY_MARKER>>, <<>>, "null")]}
  \cup {[kind |-> "tx",
         tx |-> Tx(sig.signature, <<OTHER_PROGRAM_ID, PUMPFUN_PROGRAM_ID>>, <<LogInvoke, BUY_MARKER>>, inner, "null")] :
        inner \in InnerSamples}

\* Token names the metadata service knows, by the mint's fill byte.
TokenNameOf(mint) ==
  IF mint[1] = 7 THEN <<"P", "E", "P", "E">> ELSE <<"M", "y", " ", "C", "a", "t">>

\* What metaplex.nfts().findByMint can settle with.
NameResponses(mint) ==
  {[kind |-> "error"], [kind |-> "metadata", name |-> TokenNameOf(mint)]}

\* The identifier lists: signature objects, here numbered 1..n.
SigList(n) == [i \in 1..n |-> [signature |-> i]]


\* ------------------------------------------------------------------- state
VARIABLES
  variant,        \* which of the file's two programs runs
  batchSize,      \* the concurrency limit in force (const batchSize)
  entry,          \* the function called: getTransactionDetails or getAllTransactions
  pc,             \* where the caller is: "start", "getSignatures", "getTransactionDetails", "done"
  signatures,     \* the identifier list handed to getTransactionDetails
  requests,       \* the calls made to connection.getParsedTransaction, in order;
                  \* the promise of call number p is identified by p
  inProgress,     \* const inProgress = new Set(): promises in flight
  completed,      \* let completed = 0
  transactions,   \* const transactions = []: the array the result refers to
  parsing,        \* full variant: parsePumpfunTx promises suspended in await nameOfToken(mint)
  tokenNameCache, \* const tokenNameCache = {}
  caught,         \* promises whose .catch handler ran
  unhandled,      \* promises whose detached parse chain rejected with no handler
  resolveCalls,   \* number of calls of resolve
  result,         \* the settled state of the promise getTransactionDetails returns
  returned,       \* what getAllTransactions returned
  written,        \* what the caller's .then wrote to transactions.json
  fetchFailed,    \* promises whose getParsedTransaction call rejected (the log of .catch)
  fetchOrder,     \* history, kept in the runs of OrderSpec only: the signatures whose
                  \* fetch has settled, in the order the fetches settled
  blob,           \* decoder runs: the bytes of the first target-program inner instruction
  record,         \* decoder and classifier runs: the record handed to the function
  decoded,        \* decoder runs: what parsePumpfunTx did with the record
  classified,     \* classifier runs: what isPumpfunTx returned for the record
  ledger,         \* getSignatures runs: the address's signatures on the node, newest first
  pageLimit,      \* getSignatures runs: the limit option of getSignaturesForAddress
  startTime,      \* getSignatures: const startTime
  before,         \* getSignatures: let before
  sigsSoFar,      \* getSignatures: let signatures
  pages,          \* history: the pages getSignaturesForAddress resolved with, in order
  pageRequests,   \* history: number of calls of getSignaturesForAddress
  sigResult       \* what getSignatures returned

vars == <<variant, batchSize, entry, pc, signatures, requests, inProgress, completed,
          transactions, parsing, tokenNameCache, caught, unhandled, resolveCalls,
          result, returned, written, fetchFailed, fetchOrder, blob, record, decoded,
          classified, ledger, pageLimit, startTime, before, sigsSoFar, pages,
          pageRequests, sigResult>>

\* What the pipeline never touches: the inputs of a run and the state of the
\* classifier, decoder and getSignatures runs.
pure == <<blob, record, decoded, classified>>
paging == <<ledger, pageLimit, startTime, before, sigsSoFar, pages, pageRequests, sigResult>>
setup == <<variant, batchSize, entry, pure, paging>>
pipeline == <<pc, signatures, requests, inProgress, completed, transactions, parsing,
              tokenNameCache, caught, unhandled, resolveCalls, result, returned, written,
              fetchFailed, fetchOrder>>

\* ---------------------------------------------------------------- pipeline
\* { ...a, ...b } on objects
Spread(a, b) ==
  [k \in (DOMAIN a) \cup (DOMAIN b) |-> IF k \in DOMAIN b THEN b[k] ELSE a[k]]

\* startNext with the ceiling test left out of the while condition.
CanLaunchNoCeiling(inProg, comp, sigs, limit) ==
  comp + Cardinality(inProg) < Len(sigs)

\* The while condition of startNext.
CanLaunch(inProg, comp, sigs, limit) ==
  Cardinality(inProg) < limit /\ comp + Cardinality(inProg) < Len(sigs)

\* The index computed from the completed count alone.
NextIndexCompletedOnly(inProg, comp) == comp

\* The 0-based index of the identifier launched next: completed + inProgress.size
NextIndex(inProg, comp) == comp + Cardinality(inProg)

\* startNext(): launches fetches while the condition holds; each iteration
\* reads signatures[completed + inProgress.size] and adds a fresh promise.
RECURSIVE StartNext(_, _, _, _, _)
StartNext(inProg, comp, reqs, sigs, limit) ==
  IF CanLaunch(inProg, comp, sigs, limit)
  THEN StartNext(inProg \cup {Len(reqs) + 1}, comp,
                 Append(reqs, sigs[NextIndex(inProg, comp) + 1]), sigs, limit)
  ELSE [inProgress |-> inProg, requests |-> reqs]

\* The resolve test off by one: completed >= signatures.length - 1.
ShouldResolveOffByOne(comp, sigs) == comp >= Len(sigs) - 1

\* if (completed === signatures.length) resolve(...)
ShouldResolve(comp, sigs) == comp = Len(sigs)

\* The .finally callback without its startNext() call.
FinallyWithoutStartNext(p, inProg, comp, reqs, sigs, limit) ==
  [inProgress |-> inProg \ {p}, completed |-> comp + 1, requests |-> reqs]

\* The .finally callback launching batch by batch: startNext() is called only
\* once the whole in-flight set has drained.
FinallyBatchwise(p, inProg, comp, reqs, sigs, limit) ==
  LET next == IF inProg \ {p} = {} THEN StartNext({}, comp + 1, reqs, sigs, limit)
              ELSE [inProgress |-> inProg \ {p}, requests |-> reqs]
  IN  [inProgress |-> next.inProgress, completed |-> comp + 1, requests |-> next.requests]

\* The .finally callback up to the resolve test: delete, completed++, startNext().
Finally(p, inProg, comp, reqs, sigs, limit) ==
  LET next == StartNext(inProg \ {p}, comp + 1, reqs, sigs, limit)
  IN  [inProgress |-> next.inProgress, completed |-> comp + 1, requests |-> next.requests]

NoEffect == [caught |-> FALSE, unhandled |-> FALSE, push |-> <<>>, await |-> <<>>]

\* if (name.includes(' ')) name = `"${name}"`
QuoteName(name) == IF includes(name, <<" ">>) THEN <<"\"">> \o name \o <<"\"">> ELSE name

\* The tail of the detached chain of the full variant, once the name is known:
\* parsePumpfunTx's promise is fulfilled, then showPumpfunTx and push.
ShowAndPush(value, tokenName) ==
  LET parsed == Spread(value, [tokenName |-> tokenName])
  IN  IF showPumpfunTxThrows([kind |-> "value", value |-> parsed])
      THEN [NoEffect EXCEPT !.unhandled = TRUE]
      ELSE [NoEffect EXCEPT !.push = <<parsed>>]

\* Full variant: .then(tx => ...) and .catch(...) for one settled fetch, with the
\* reactions of the detached parsePumpfunTx(tx).then(...) that run before the
\* .finally callback: everything except a name lookup that misses the cache.
\* The cache is keyed by the mint's bytes (mint.toString() is their base58 form).
ThenFull(resp, cache) ==
  IF resp.kind = "error" \/ resp.kind = "null" THEN [NoEffect EXCEPT !.caught = TRUE]
  ELSE IF isPumpfunTx(resp.tx) = 0 THEN NoEffect
  ELSE LET r == parsePumpfunTxFull(resp.tx)
       IN  IF r.kind = "await"
           THEN IF r.value.mint \in DOMAIN cache
                THEN ShowAndPush(r.value, cache[r.value.mint])
                ELSE [NoEffect EXCEPT !.await = <<r.value>>]
           ELSE [NoEffect EXCEPT !.unhandled = TRUE]

\* Minimal variant: .then(tx => ...) and .catch(...) for one settled fetch.
ThenMinimal(sig, resp) ==
  IF resp.kind = "error" \/ resp.kind = "null" THEN [NoEffect EXCEPT !.caught = TRUE]
  ELSE IF isPumpfunTx(resp.tx) = 0 THEN NoEffect
  ELSE LET r    == parsePumpfunTxMinimal(resp.tx)
           base == [signature |-> sig.signature, timestamp |-> resp.tx.blockTime,
                    slot |-> resp.tx.slot, success |-> resp.tx.meta.err = "null"]
       IN  IF r.kind = "throw" THEN [NoEffect EXCEPT !.caught = TRUE]
           ELSE IF r.kind = "undefined" THEN [NoEffect EXCEPT !.push = <<base>>]
           ELSE [NoEffect EXCEPT !.push = <<Spread(base, r.value)>>]

Pending == [state |-> "pending"]
NotReturned == [kind |-> "none"]
NotWritten == [kind |-> "none"]
NotDecoded == [kind |-> "none"]
NotClassified == [kind |-> "none"]
NoRecord == [kind |-> "none"]
Undefined == [kind |-> "undefined"]

\* The runs of the pure functions and of getSignatures, not started.
PureIdle ==
  /\ blob = <<>>
  /\ record = NoRecord
  /\ decoded = NotDecoded
  /\ classified = NotClassified

PipelineIdle ==
  /\ pc = "start"
  /\ signatures = <<>>
  /\ requests = <<>>
  /\ inProgress = {}
  /\ completed = 0
  /\ transactions = <<>>
  /\ parsing = {}
  /\ tokenNameCache = <<>>
  /\ caught = {}
  /\ unhandled = {}
  /\ resolveCalls = 0
  /\ result = Pending
  /\ returned = NotReturned
  /\ written = NotWritten
  /\ fetchFailed = {}
  /\ fetchOrder = <<>>

PagingIdle ==
  /\ ledger = <<>>
  /\ pageLimit = PAGE_LIMIT
  /\ startTime = 0
  /\ before = Undefined
  /\ sigsSoFar = <<>>
  /\ pages = <<>>
  /\ pageRequests = 0
  /\ sigResult = NotReturned

\* The aggregate with txCount taken from the collected events.
AggregateCountingEvents(sigs, txs) ==
  [state |-> "fulfilled", txCount |-> Len(txs), pumpfunCount |-> Len(txs)]

\* The value handed to resolve: a reference to the transactions array (the
\* variable transactions) and the two counts read at the call.
Aggregate(sigs, txs) == [state |-> "fulfilled", txCount |-> Len(sigs), pumpfunCount |-> Len(txs)]

\* The program fixes batchSize at 20.  Runs are also made with the smaller
\* limits 1..MaxLimit, under which lists of up to MaxSigs identifiers fill the
\* window and leave identifiers waiting.
Limits == (1..MaxLimit) \cup {BATCH_SIZE}

Init ==
  /\ variant \in Variants
  /\ batchSize \in Limits
  /\ entry \in {"getTransactionDetails", "getAllTransactions"}
  /\ pc = "start"
  /\ signatures \in IF entry = "getTransactionDetails"
                    THEN {SigList(n) : n \in 0..MaxSigs} ELSE {<<>>}
  /\ requests = <<>>
  /\ inProgress = {}
  /\ completed = 0
  /\ transactions = <<>>
  /\ parsing = {}
  /\ tokenNameCache = <<>>
  /\ caught = {}
  /\ unhandled = {}
  /\ resolveCalls = 0
  /\ result = Pending
  /\ returned = NotReturned
  /\ written = NotWritten
  /\ fetchFailed = {}
  /\ fetchOrder = <<>>
  /\ PureIdle
  /\ PagingIdle

\* The promise executor of getTransactionDetails: the first startNext().
Executor(sigs) ==
  LET next == StartNext({}, 0, <<>>, sigs, batchSize)
  IN  /\ inProgress' = next.inProgress
      /\ requests' = next.requests
      /\ pc' = "getTransactionDetails"

\* getTransactionDetails(signatures) called directly.
CallGetTransactionDetails ==
  /\ entry = "getTransactionDetails" /\ pc = "start"
  /\ Executor(signatures)
  /\ UNCHANGED <<setup, signatures, completed, transactions, parsing, tokenNameCache,
                 caught, unhandled, resolveCalls, result, returned, written, fetchFailed,
                 fetchOrder>>

\* getAllTransactions(address, daysAgo) up to its await getSignatures(...).
CallGetAllTransactions ==
  /\ entry = "getAllTransactions" /\ pc = "start"
  /\ pc' = "getSignatures"
  /\ UNCHANGED <<setup, signatures, requests, inProgress, completed, transactions, parsing,
                 tokenNameCache, caught, unhandled, resolveCalls, result, returned, written,
                 fetchFailed, fetchOrder>>

\* getSignatures resolves with sigs; getAllTransactions goes on.  An empty list
\* returns [] at once; the caller's .then then reads data.transactions of an
\* array (undefined) and writeFileSync throws, which .catch(console.error) logs.
GetSignaturesReturn(sigs) ==
  /\ pc = "getSignatures"
  /\ signatures' = sigs
  /\ IF Len(sigs) = 0
     THEN /\ returned' = [kind |-> "array", length |-> 0]
          /\ written' = [kind |-> "throw"]
          /\ pc' = "done"
          /\ UNCHANGED <<inProgress, requests>>
     ELSE /\ Executor(sigs)
          /\ UNCHANGED <<returned, written>>
  /\ UNCHANGED <<setup, completed, transactions, parsing, tokenNameCache, caught,
                 unhandled, resolveCalls, result, fetchFailed, fetchOrder>>

\* One fetch settles with resp: its .then / .catch / .finally run, and when
\* .finally resolves the pipeline, the awaiting caller runs in the same turn.
FetchSettle(p, resp) ==
  /\ p \in inProgress
  /\ \E eff \in {IF variant = "full" THEN ThenFull(resp, tokenNameCache)
                 ELSE ThenMinimal(requests[p], resp)} :
     \E fin \in {Finally(p, inProgress, completed, requests, signatures, batchSize)} :
     LET txs   == transactions \o eff.push
         res   == ShouldResolve(fin.completed, signatures)
         first == res /\ result = Pending
     IN  /\ transactions' = txs
         /\ caught' = IF eff.caught THEN caught \cup {p} ELSE caught
         /\ fetchFailed' = IF resp.kind = "error" THEN fetchFailed \cup {p} ELSE fetchFailed
         /\ unhandled' = IF eff.unhandled THEN unhandled \cup {p} ELSE unhandled
         /\ parsing' = parsing \cup {[promise |-> p, parsed |-> eff.await[i]] : i \in 1..Len(eff.await)}
         /\ inProgress' = fin.inProgress
         /\ completed' = fin.completed
         /\ requests' = fin.requests
         /\ resolveCalls' = IF res THEN resolveCalls + 1 ELSE resolveCalls
         /\ result' = IF first THEN Aggregate(signatures, txs) ELSE result
         /\ pc' = IF first THEN "done" ELSE pc
         /\ IF first /\ entry = "getAllTransactions"
            THEN /\ returned' = [kind |-> "aggregate", txCount |-> Len(signatures),
                                 pumpfunCount |-> Len(txs)]
                 /\ written' = [kind |-> "file", events |-> txs]
            ELSE UNCHANGED <<returned, written>>
  /\ UNCHANGED <<setup, signatures, tokenNameCache>>

\* Full variant: the metadata lookup of a suspended parsePumpfunTx settles.
\* nameOfToken caches the name and returns it; showPumpfunTx and push follow.
NameSettle(q, resp) ==
  /\ q \in parsing
  /\ parsing' = parsing \ {q}
  /\ IF resp.kind = "error"
     THEN /\ unhandled' = unhandled \cup {q.promise}
          /\ UNCHANGED <<transactions, tokenNameCache>>
     ELSE LET name == QuoteName(resp.name)
              eff  == ShowAndPush(q.parsed, name)
          IN  /\ tokenNameCache' = [k \in (DOMAIN tokenNameCache) \cup {q.parsed.mint} |->
                                      IF k = q.parsed.mint THEN name ELSE tokenNameCache[k]]
              /\ transactions' = transactions \o eff.push
              /\ unhandled' = IF eff.unhandled THEN unhandled \cup {q.promise} ELSE unhandled
  /\ UNCHANGED <<setup, pc, signatures, requests, inProgress, completed, caught,
                 resolveCalls, result, returned, written, fetchFailed, fetchOrder>>

Next ==
  \/ CallGetTransactionDetails
  \/ CallGetAllTransactions
  \/ \E n \in 0..MaxSigs : GetSignaturesReturn(SigList(n))
  \/ \E p \in inProgress : \E resp \in FetchResponses(requests[p]) :
       FetchSettle(p, resp) /\ UNCHANGED fetchOrder
  \/ \E q \in parsing : \E resp \in NameResponses(q.parsed.mint) : NameSettle(q, resp)

Spec == Init /\ [][Next]_vars

\* The pipeline with the history of fetch completions recorded.
NextOrder ==
  \/ CallGetTransactionDetails
  \/ CallGetAllTransactions
  \/ \E n \in 0..MaxSigs : GetSignaturesReturn(SigList(n))
  \/ \E p \in inProgress : \E resp \in FetchResponses(requests[p]) :
       FetchSettle(p, resp) /\ fetchOrder' = Append(fetchOrder, requests[p].signature)
  \/ \E q \in parsing : \E resp \in NameResponses(q.parsed.mint) : NameSettle(q, resp)

OrderSpec == Init /\ [][NextOrder]_vars


\* Every launched fetch eventually settles (fulfils or rejects).
SettleOf(p) ==
  /\ p \in inProgress
  /\ \E resp \in FetchResponses(requests[p]) : FetchSettle(p, resp)
  /\ UNCHANGED fetchOrder

FairSpec == Spec /\ \A p \in 1..MaxSigs : WF_vars(SettleOf(p))

\* ------------------------------------------------------------ decoder runs
\* Longest instruction-data blob handed to the decoder.
MaxBlobLen == 138

\* 2^63 and 2^64 - 1 as 8 little-endian bytes: amounts with the top bit set.
TwoTo63 == <<0, 0, 0, 0, 0, 0, 0, 128>>
AllOnes == <<255, 255, 255, 255, 255, 255, 255, 255>>

\* The (solAmount, tokenAmount) byte fields of the blobs decoded.
AmountPairs == {<<FixtureSol, FixtureTok>>, <<TwoTo63, FixtureTok>>, <<FixtureSol, AllOnes>>}

BlobInputs ==
  {Blob(n, 7, a[1], a[2], flag, FixtureTs) : n \in 0..MaxBlobLen, flag \in 0..2, a \in AmountPairs}

\* A complete sell of another mint, placed after the blob in some records.
LaterBlob == Blob(137, 9, FixtureTok, FixtureSol, 0, FixtureTs)

\* The inner-instruction lists in which bytes is the data of the first
\* target-program instruction: alone; followed by a target-program instruction
\* of a later group; followed by one of its own group.
InnerAround(bytes) ==
  { <<Group(<<Inst(PUMPFUN_PROGRAM_ID, Data(bytes))>>)>>,
    <<Group(<<Inst(OTHER_PROGRAM_ID, Data(<<1, 2, 3>>)), Inst(PUMPFUN_PROGRAM_ID, Data(bytes))>>),
      Group(<<Inst(PUMPFUN_PROGRAM_ID, Data(LaterBlob))>>)>>,
    <<Group(<<Inst(OTHER_PROGRAM_ID, Data(<<1, 2, 3>>))>>),
      Group(<<Inst(PUMPFUN_PROGRAM_ID, Data(bytes)), Inst(PUMPFUN_PROGRAM_ID, Data(LaterBlob))>>)>> }

\* A matched record with the inner instructions inner.
TxWithInner(inner) == Tx(1, <<PUMPFUN_PROGRAM_ID>>, <<BUY_MARKER>>, inner, "null")

InitDecode ==
  /\ variant \in Variants
  /\ batchSize = BATCH_SIZE
  /\ entry = "parsePumpfunTx"
  /\ PipelineIdle
  /\ PagingIdle
  /\ blob \in BlobInputs
  /\ record \in {TxWithInner(inner) : inner \in InnerAround(blob)}
  /\ decoded = NotDecoded
  /\ classified = NotClassified

\* parsePumpfunTx(tx) on the record, in the variant's mode.
Decode ==
  /\ entry = "parsePumpfunTx" /\ decoded = NotDecoded
  /\ decoded' = IF variant = "minimal" THEN parsePumpfunTxMinimal(record)
                ELSE parsePumpfunTxFull(record)
  /\ UNCHANGED <<variant, batchSize, entry, pipeline, paging, blob, record, classified>>

NextDecode == Decode

DecodeSpec == InitDecode /\ [][NextDecode]_vars

\* --------------------------------------------------------- classifier runs
\* Longest outer instruction list and longest log of the records classified.
MaxOuter == 2
MaxLogs == 2

\* A log line that holds the Buy marker without being equal to it.
LogBuyInside == <<">", " ">> \o BUY_MARKER \o <<" ", "#", "1">>

LogSamples == {LogInvoke, LogTransfer, BUY_MARKER, SELL_MARKER, LogBuyInside}

SeqsUpTo(S, n) == UNION {[1..k -> S] : k \in 0..n}

InitClassify ==
  /\ variant \in Variants
  /\ batchSize = BATCH_SIZE
  /\ entry = "isPumpfunTx"
  /\ PipelineIdle
  /\ PagingIdle
  /\ blob = <<>>
  /\ record \in {Tx(1, outer, logs, <<>>, "null") :
                   outer \in SeqsUpTo({OTHER_PROGRAM_ID, PUMPFUN_PROGRAM_ID}, MaxOuter),
                   logs \in SeqsUpTo(LogSamples, MaxLogs)}
  /\ decoded = NotDecoded
  /\ classified = NotClassified

\* isPumpfunTx(tx) on the record; the function is the same in both variants.
Classify ==
  /\ entry = "isPumpfunTx" /\ classified = NotClassified
  /\ classified' = [kind |-> "value", value |-> isPumpfunTx(record)]
  /\ UNCHANGED <<variant, batchSize, entry, pipeline, paging, blob, record, decoded>>

NextClassify == Classify

ClassifySpec == InitClassify /\ [][NextClassify]_vars

\* ------------------------------------------------------ getSignatures runs
\* Most signatures the address has on the node, largest page limit tried below
\* the program's 1000, and largest daysAgo.
MaxLedger == 3
MaxPage == 2
MaxDays == 1

\* Math.floor(Date.now() / 1000) at the call, and the seconds of a day.
NowSeconds == 1738926959
DAY_SECONDS == 24 * 60 * 60

\* const startTime = Math.floor(Date.now() / 1000) - (daysAgo * 24 * 60 * 60)
StartTimeOf(daysAgo) == NowSeconds - (daysAgo * DAY_SECONDS)

\* Block times around the window starts.
Times == {NowSeconds - DAY_SECONDS - 1, NowSeconds - DAY_SECONDS,
          NowSeconds - DAY_SECONDS + 1, NowSeconds}

\* What the node holds for the address: signature objects, newest first
\* (getSignaturesForAddress lists backwards in time), numbered by position.
Ledgers ==
  {[i \in 1..Len(ts) |-> [signature |-> i, blockTime |-> ts[i]]] :
     ts \in {t \in SeqsUpTo(Times, MaxLedger) : \A i \in 1..(Len(t) - 1) : t[i] >= t[i + 1]}}

\* The program asks for pages of 1000; runs are also made with the limits
\* 1..MaxPage, under which ledgers of up to MaxLedger signatures span pages.
PageLimits == (1..MaxPage) \cup {PAGE_LIMIT}

\* getSignaturesForAddress(pubKey, { before, limit }): the signatures that
\* follow `before` in the ledger (all of them when before is undefined), at
\* most limit of them.
PageOf(led, bef, limit) ==
  LET from == IF bef.kind = "undefined" THEN 0
              ELSE CHOOSE i \in 1..Len(led) : led[i].signature = bef.signature
  IN  SubSeq(led, from + 1, Min(from + limit, Len(led)))

\* The filter with a strict comparison.
InWindowStrict(sig, start) == sig.blockTime > start

\* sig => sig.blockTime >= startTime
InWindow(sig, start) == sig.blockTime >= start

\* signatureObjects.filter(sig => sig.blockTime >= startTime)
RECURSIVE Filter(_, _)
Filter(page, start) ==
  IF page = <<>> THEN <<>>
  ELSE (IF InWindow(Head(page), start) THEN <<Head(page)>> ELSE <<>>) \o Filter(Tail(page), start)

InitSignatures ==
  /\ variant \in Variants
  /\ batchSize = BATCH_SIZE
  /\ entry = "getSignatures"
  /\ PipelineIdle
  /\ PureIdle
  /\ ledger \in Ledgers
  /\ pageLimit \in PageLimits
  /\ startTime = 0
  /\ before = Undefined
  /\ sigsSoFar = <<>>
  /\ pages = <<>>
  /\ pageRequests = 0
  /\ sigResult = NotReturned

AwaitingPage == sigResult = NotReturned /\ pageRequests > Len(pages)

\* getSignatures(address, daysAgo) up to the first await of the loop.
CallGetSignatures(daysAgo) ==
  /\ entry = "getSignatures" /\ pageRequests = 0
  /\ startTime' = StartTimeOf(daysAgo)
  /\ sigsSoFar' = <<>>
  /\ before' = Undefined
  /\ pageRequests' = 1
  /\ UNCHANGED <<variant, batchSize, entry, pipeline, pure, ledger, pageLimit, pages, sigResult>>

\* A page arrives: the loop body runs, and either the loop ends and the
\* function returns signatures, or the next page is requested.
PageSettle ==
  /\ AwaitingPage
  /\ LET signatureObjects   == PageOf(ledger, before, pageLimit)
         filteredSignatures == Filter(signatureObjects, startTime)
         stop == \/ Len(signatureObjects) = 0
                 \/ /\ Len(filteredSignatures) = 0
                    /\ signatureObjects[1].blockTime < startTime
     IN  /\ pages' = Append(pages, [kind |-> "page", items |-> signatureObjects])
         /\ IF stop
            THEN /\ sigResult' = [kind |-> "array", value |-> sigsSoFar]
                 /\ UNCHANGED <<sigsSoFar, before, pageRequests>>
            ELSE /\ sigsSoFar' = sigsSoFar \o filteredSignatures
                 /\ before' = [kind |-> "signature",
                               signature |-> signatureObjects[Len(signatureObjects)].signature]
                 /\ pageRequests' = pageRequests + 1
                 /\ UNCHANGED sigResult
  /\ UNCHANGED <<variant, batchSize, entry, pipeline, pure, ledger, pageLimit, startTime>>

\* The page request is rejected: catch (error) { ...; return []; }
PageFail ==
  /\ AwaitingPage
  /\ pages' = Append(pages, [kind |-> "error"])
  /\ sigResult' = [kind |-> "array", value |-> <<>>]
  /\ UNCHANGED <<variant, batchSize, entry, pipeline, pure, ledger, pageLimit, startTime,
                 before, sigsSoFar, pageRequests>>

NextSignatures ==
  \/ \E daysAgo \in 0..MaxDays : CallGetSignatures(daysAgo)
  \/ PageSettle
  \/ PageFail

SignaturesSpec == InitSignatures /\ [][NextSignatures]_vars

\* ------------------------------------------------------------------ claims
Started == pc \notin {"start", "getSignatures"}

\* C1: for an empty identifier list the run resolves at once with the
\* aggregate {txCount 0, pumpfunCount 0, transactions []}, both when
\* getTransactionDetails([]) is called and when getAllTransactions gets no
\* identifiers from the signature source.
C1_EmptyListResolves ==
  /\ (entry = "getTransactionDetails" /\ Started /\ Len(signatures) = 0)
       => (result = Aggregate(<<>>, <<>>) /\ transactions = <<>>)
  /\ (entry = "getAllTransactions" /\ Started /\ Len(signatures) = 0)
       => returned = [kind |-> "aggregate", txCount |-> 0, pumpfunCount |-> 0]

\* C2: resolve is called at most once and only with completed = L; completed
\* never exceeds L and counts every settled identifier exactly once.
C2_ResolveOnceAtCompletion ==
  /\ resolveCalls <= 1
  /\ resolveCalls = 1 => completed = Len(signatures)
  /\ completed <= Len(signatures)
  /\ completed = Cardinality({requests[p].signature : p \in (1..Len(requests)) \ inProgress})

C2_Witness ==
  /\ resolveCalls = 1 /\ Len(signatures) = MaxSigs /\ batchSize < MaxSigs
  /\ fetchFailed # {} /\ transactions # <<>>

\* C3: for a list of L >= 1 identifiers, if every launched fetch eventually
\* settles, completed eventually reaches L and the pipeline resolves.
C3_EventuallyResolves ==
  (pc = "getTransactionDetails" /\ Len(signatures) >= 1)
    ~> (completed = Len(signatures) /\ result # Pending)

C3_Witness ==
  /\ result # Pending /\ completed = MaxSigs /\ batchSize = 1
  /\ Cardinality(fetchFailed) >= 2

\* C4: the number of fetches in flight never exceeds the concurrency limit.
C4_ConcurrencyCeiling == Cardinality(inProgress) <= batchSize

C4_Witness ==
  /\ Cardinality(inProgress) = batchSize /\ completed >= 1
  /\ completed + Cardinality(inProgress) < Len(signatures)

\* C5: the resolved result's pumpfunCount equals the length of its
\* transactions array at resolution and in every later state.
C5_CountEqualsLength ==
  result # Pending => result.pumpfunCount = Len(transactions)

\* C6: the pipeline resolves only when every identifier is terminal: once
\* resolved, no fetch, decode, name lookup or append is still pending.
C6_ResolvedMeansAllTerminal ==
  result # Pending => (inProgress = {} /\ parsing = {})

\* C7: every error raised while handling one identifier is handled by that
\* item's failure handler; none escapes as an unhandled rejection.
C7_ErrorsContained == unhandled = {}

\* C8: every collected event belongs to exactly one identifier whose record
\* matched and whose payload decode succeeded (it carries the decoded fields);
\* a matched record without a decodable target-program instruction appends nothing.
C8_EventsAreDecodedMatches ==
  /\ \A i \in 1..Len(transactions) :
       {"solAmount", "tokenAmount", "isBuy"} \subseteq DOMAIN transactions[i]
  /\ \A i, j \in 1..Len(transactions) :
       i # j => transactions[i].signature # transactions[j].signature

\* C9: a fetch failure counts the identifier as completed exactly once, appends
\* no event, leaves the launching of the remaining identifiers going, and the
\* result's txCount is the input length whatever fetches failed.
C9_FetchFailureIsSoft ==
  /\ [](result # Pending => result.txCount = Len(signatures))
  /\ [][\A p \in fetchFailed' \ fetchFailed :
          /\ completed' = completed + 1
          /\ transactions' = transactions
          /\ p \notin inProgress'
          /\ \/ Cardinality(inProgress') >= batchSize
             \/ completed' + Cardinality(inProgress') >= Len(signatures)]_vars

C9_Witness ==
  /\ batchSize = 1 /\ 1 \in fetchFailed /\ Len(requests) = MaxSigs
  /\ result # Pending /\ result.txCount = MaxSigs /\ transactions # <<>>

\* C10: minimal-mode decode fails for every blob shorter than 65 bytes (a
\* 64-byte blob included) and succeeds on a blob of exactly 65 bytes.
C10_MinimalShortBlobFails ==
  (variant = "minimal" /\ decoded # NotDecoded) =>
    /\ Len(blob) < 65 => decoded.kind = "throw"
    /\ Len(blob) = 65 => decoded.kind = "value"

\* C11: full-mode decode of a record whose target-program inner-instruction
\* blob is not exactly 137 bytes long (136 or 138, say) yields nothing to
\* append: the record produces no event.
C11_FullWrongLengthNoEvent ==
  (variant = "full" /\ decoded # NotDecoded /\ Len(blob) # FULL_LENGTH)
    => decoded.kind # "await"

\* The reference classifier of C12 searches the logs with its own substring
\* search and reads the record in the state.
RECURSIVE C12_Occurs(_, _)
C12_Occurs(str, marker) ==
  IF Len(str) < Len(marker) THEN FALSE
  ELSE \/ \A k \in 1..Len(marker) : str[k] = marker[k]
       \/ C12_Occurs(Tail(str), marker)

C12_Referenced ==
  PUMPFUN_PROGRAM_ID \in {record.transaction.message.instructions[i].programId :
                            i \in DOMAIN record.transaction.message.instructions}

C12_Marked(marker) ==
  \E j \in DOMAIN record.meta.logMessages : C12_Occurs(record.meta.logMessages[j], marker)

\* C12: isPumpfunTx is the reference classifier: 0 when no outer instruction
\* references the target program, whatever the logs hold; otherwise 1 when
\* some log message contains the Buy marker, also when a Sell marker is
\* present or comes earlier; otherwise 2 when some log message contains the
\* Sell marker; otherwise 0.
C12_ReferenceClassifier ==
  classified # NotClassified =>
    /\ ~C12_Referenced => classified.value = 0
    /\ (C12_Referenced /\ C12_Marked(BUY_MARKER)) => classified.value = 1
    /\ (C12_Referenced /\ ~C12_Marked(BUY_MARKER) /\ C12_Marked(SELL_MARKER))
         => classified.value = 2
    /\ (C12_Referenced /\ ~C12_Marked(BUY_MARKER) /\ ~C12_Marked(SELL_MARKER))
         => classified.value = 0

C12_Witness ==
  /\ classified = [kind |-> "value", value |-> 1]
  /\ record.meta.logMessages = <<SELL_MARKER, LogBuyInside>>
  /\ Len(record.transaction.message.instructions) = 2

\* The reference value is computed by Horner's rule on decimal digits, least
\* significant digit first; a 64-bit integer is read correctly when it is the
\* unsigned value of the bytes or that value minus 2^64.
RECURSIVE C13_MulAdd(_, _, _)
C13_MulAdd(d, m, c) ==
  IF d = <<>> THEN (IF c = 0 THEN <<>> ELSE <<c % 10>> \o C13_MulAdd(<<>>, m, c \div 10))
  ELSE LET v == Head(d) * m + c IN <<v % 10>> \o C13_MulAdd(Tail(d), m, v \div 10)

RECURSIVE C13_ValueLE(_)
C13_ValueLE(bytes) ==
  IF bytes = <<>> THEN <<>> ELSE C13_MulAdd(C13_ValueLE(Tail(bytes)), 256, Head(bytes))

RECURSIVE C13_Add(_, _, _)
C13_Add(a, b, c) ==
  IF a = <<>> /\ b = <<>> THEN (IF c = 0 THEN <<>> ELSE <<c>>)
  ELSE LET x == IF a = <<>> THEN 0 ELSE Head(a)
           y == IF b = <<>> THEN 0 ELSE Head(b)
       IN  <<(x + y + c) % 10>>
             \o C13_Add(IF a = <<>> THEN a ELSE Tail(a), IF b = <<>> THEN b ELSE Tail(b),
                        (x + y + c) \div 10)

C13_LowFirst(digits) ==
  IF digits = <<0>> THEN <<>> ELSE [i \in 1..Len(digits) |-> digits[Len(digits) + 1 - i]]

C13_TwoTo64 == C13_LowFirst(<<1, 8, 4, 4, 6, 7, 4, 4, 0, 7, 3, 7, 0, 9, 5, 5, 1, 6, 1, 6>>)

C13_IsInt64LE(v, bytes) ==
  IF v.neg THEN C13_Add(C13_LowFirst(v.digits), C13_ValueLE(bytes), 0) = C13_TwoTo64
  ELSE C13_LowFirst(v.digits) = C13_ValueLE(bytes)

C14_SlidingWindow ==
  /\ [](Started => Cardinality(inProgress) = Min(batchSize, Len(signatures) - completed))
  /\ [][(completed' = completed + 1 /\ Len(requests) < Len(signatures))
         => /\ Len(requests') = Len(requests) + 1
            /\ Len(requests') \in inProgress']_vars

C14_Witness ==
  /\ batchSize = 2 /\ Len(signatures) = MaxSigs
  /\ completed = 1 /\ inProgress = {1, 3}

\* C19: in every reachable state of getTransactionDetails, completed +
\* |inProgress| is the number of identifiers launched so far, so the index
\* signatures[completed + inProgress.size] selects each identifier once and in
\* input order: none is fetched twice, none is skipped, under any
\* interleaving of completions.
C19_LaunchedOnceInOrder ==
  /\ completed + Cardinality(inProgress) = Len(requests)
  /\ Len(requests) <= Len(signatures)
  /\ \A k \in 1..Len(requests) : requests[k] = signatures[k]
  /\ result # Pending => Len(requests) = Len(signatures)

C19_Witness ==
  /\ batchSize = 2 /\ Len(signatures) = MaxSigs /\ result # Pending
  /\ 2 \in fetchFailed /\ 1 \notin fetchFailed /\ Len(transactions) >= 2

\* C15: the payload decoded for a matched record is the data blob of the
\* first inner instruction, in group order and then instruction order, whose
\* program is the target program; no later target-program inner instruction
\* is decoded in its place, in either mode.
C15_FirstTargetInstructionDecoded ==
  (decoded # NotDecoded /\ decoded.kind \in {"value", "await"}) =>
    /\ Len(blob) >= 64
    /\ decoded.value.solAmount = readBigInt64LE(slice(blob, 48, 56))
    /\ decoded.value.tokenAmount = readBigInt64LE(slice(blob, 56, 64))
    /\ decoded.value.isBuy = IsBuyAt64(blob)
    /\ decoded.kind = "await" => decoded.value.mint = slice(blob, 16, 48)

\* C18: solAmount and tokenAmount are decoded as unsigned 64-bit little-endian
\* integers: for every 8-byte field, those with the top bit set (values of
\* 2^63 and more) included, the decoded amount is the unsigned value of the
\* bytes at offsets 48..55 and 56..63 and is never negative.
C18_AmountsUnsigned ==
  (decoded # NotDecoded /\ decoded.kind \in {"value", "await"} /\ Len(blob) = FULL_LENGTH) =>
    /\ ~decoded.value.solAmount.neg
    /\ ~decoded.value.tokenAmount.neg
    /\ C13_LowFirst(decoded.value.solAmount.digits) = C13_ValueLE(SubSeq(blob, 49, 56))
    /\ C13_LowFirst(decoded.value.tokenAmount.digits) = C13_ValueLE(SubSeq(blob, 57, 64))

\* The rank of a signature in the history of fetch completions.
C16_CompletionRank(sig) == CHOOSE k \in 1..Len(fetchOrder) : fetchOrder[k] = sig

\* C16: the order of the collected events is the completion order of their
\* fetches: when the fetches of a and b both yield events and a's fetch
\* completes before b's, a's event precedes b's in transactions.
C16_EventsInCompletionOrder ==
  \A i, j \in 1..Len(transactions) :
    i < j => C16_CompletionRank(transactions[i].signature)
               < C16_CompletionRank(transactions[j].signature)

\* C17: getSignatures stops paginating once a returned page's oldest item
\* predates startTime: after a page whose last item has blockTime < startTime
\* has arrived, no further page request is issued.
C17_StopsAtOldPage ==
  \A i \in 1..Len(pages) :
    (/\ pages[i].kind = "page" /\ pages[i].items # <<>>
     /\ pages[i].items[Len(pages[i].items)].blockTime < startTime)
      => pageRequests <= i

\* The in-window items of the pages received, in page order, and whether a
\* page request was rejected.
RECURSIVE C20_InWindowOf(_)
C20_InWindowOf(responses) ==
  IF responses = <<>> THEN <<>>
  ELSE LET items == IF Head(responses).kind = "page" THEN Head(responses).items ELSE <<>>
       IN  SelectSeq(items, LAMBDA x : x.blockTime >= startTime) \o C20_InWindowOf(Tail(responses))

C20_Failed == \E i \in 1..Len(pages) : pages[i].kind = "error"

\* C20: getSignatures returns only identifiers whose blockTime is >= startTime,
\* in the order the pages supplied them; when a page request fails it returns
\* the empty list, the in-window identifiers of earlier pages discarded.
C20_InWindowOrEmpty ==
  sigResult # NotReturned =>
    /\ \A k \in 1..Len(sigResult.value) : sigResult.value[k].blockTime >= startTime
    /\ ~C20_Failed => sigResult.value = C20_InWindowOf(pages)
    /\ C20_Failed => sigResult.value = <<>>

C20_Witness ==
  /\ sigResult = [kind |-> "array", value |-> <<>>]
  /\ C20_Failed /\ Len(pages) = 3 /\ Len(sigsSoFar) = 2
  /\ sigsSoFar[2].blockTime = startTime

====
